---- MODULE Spec2Model ----
(***************************************************************************)
(* State-machine model of DeployEndpointStack.__init__                     *)
(* (modules/sagemaker/sagemaker-endpoint/stack.py): the construction of    *)
(* one SageMaker endpoint stack, statement group by statement group, with  *)
(* the wall clock and the external collaborators as the environment.       *)
(***************************************************************************)
EXTENDS Integers, Sequences, FiniteSets, TLC

VARIABLES
    zone,                  \* time zone of the process (environment of datetime.now())
    region,                \* self.region
    now,                   \* the wall clock: seconds since 00:00:00 UTC of BaseDate
    pc,                    \* position inside __init__ ("idle" between invocations)
    req,                   \* the arguments of the running invocation
    started,               \* instant at which the running invocation was entered
    calls,                 \* external lookups / collaborator calls made so far, in order
    nodes,                 \* constructs added to the stack so far, in creation order
    role,                  \* self.model_execution_role
    model_package_arn,     \* local model_package_arn after line 130-135
    lookup_returned,       \* what get_approved_package handed back (None if not called)
    model_name,            \* local model_name (line 140)
    endpoint_config_name,  \* local endpoint_config_name (line 164)
    suppressions,          \* cdk-nag suppressions recorded on the role
    error,                 \* exception that left __init__, "none" if none
    invocations,           \* number of invocations entered
    history                \* the stacks constructed successfully so far

vars == <<zone, region, now, pc, req, started, calls, nodes, role, model_package_arn,
          lookup_returned, model_name, endpoint_config_name, suppressions, error,
          invocations, history>>

----------------------------------------------------------------------------
(* Bounds of the model *)

MaxInvocations == 2

(* The clock is observed at the first MaxSeconds seconds of the first       *)
(* MaxHours hours after instant 0.                                          *)
MaxHours == 1

MaxSeconds == 1

Instants == {h * 3600 + sec : h \in 0..MaxHours, sec \in 0..MaxSeconds}

(* Environment of the clock: day 0 of the model and the instant (seconds     *)
(* after 00:00 UTC of that day) at which Europe/London leaves summer time.   *)
BaseDate == 20261025

DstEnd == 3600

Zones == {"UTC", "Europe/London"}

Regions == {"eu-west-2"}

----------------------------------------------------------------------------
(* Input domains: Optional[str] arguments are None, the empty string or a   *)
(* non-empty string.                                                        *)

None == "None"

StackIds == {"dep-a", "dep-b"}

RoleArns == {None, "", "arn:role:X"}

PackageArns == {None, "", "pkg-1"}

GroupNames == {None, "", "grp-A"}

BucketArns == {None, "arn:bucket:B"}

EcrRepoArns == {None, "arn:ecr:R"}

Requests ==
    [id : StackIds,
     model_package_arn : PackageArns,
     model_package_group_name : GroupNames,
     model_execution_role_arn : RoleArns,
     model_artifacts_bucket_arn : BucketArns,
     ecr_repo_arn : EcrRepoArns]

NoRequest ==
    [id |-> None, model_package_arn |-> None, model_package_group_name |-> None,
     model_execution_role_arn |-> None, model_artifacts_bucket_arn |-> None,
     ecr_repo_arn |-> None]

(* Python truthiness of an Optional[str]: `if x` *)
Truthy(x) == x # None /\ x # ""

----------------------------------------------------------------------------
(* get_timestamp *)

(* utcoffset of the process's local time at instant t *)
UtcOffset(z, t) == IF z = "Europe/London" /\ t < DstEnd THEN 3600 ELSE 0

(* datetime.now(): the naive local wall time; .replace(tzinfo=timezone.utc) *)
(* relabels it without converting, so the fields stay the local ones.       *)
DatetimeNow(z, t) == t + UtcOffset(z, t)

(* strftime("%Y%m%d%H%M%S") of a naive datetime s seconds after 00:00:00 of *)
(* BaseDate: <<YYYYMMDD, HHMMSS>>                                           *)
Strftime(s) ==
    << BaseDate + (s \div 86400),
       ((s \div 3600) % 24) * 10000 + ((s \div 60) % 60) * 100 + (s % 60) >>

get_timestamp == Strftime(DatetimeNow(zone, now))

(* f"{id}-{suffix}-{timestamp}" *)
Name(id, suffix, ts) == <<id, suffix, ts>>

NoName == <<>>

TimestampOf(name) == name[3]

----------------------------------------------------------------------------
(* Role resolution (lines 57-128) *)

Statement(actions, resources) == [actions |-> actions, resources |-> resources]

BaselineStatement ==
    Statement({"cloudwatch:PutMetricData", "logs:CreateLogStream", "logs:PutLogEvents",
               "logs:CreateLogGroup", "logs:DescribeLogStreams",
               "ecr:GetAuthorizationToken", "ec2:CreateNetworkInterface",
               "ec2:CreateNetworkInterfacePermission", "ec2:DeleteNetworkInterface",
               "ec2:DeleteNetworkInterfacePermission", "ec2:DescribeNetworkInterfaces",
               "ec2:DescribeVpcs", "ec2:DescribeDhcpOptions", "ec2:DescribeSubnets",
               "ec2:DescribeSecurityGroups"},
              <<"*">>)

KmsStatement ==
    Statement({"kms:Encrypt", "kms:ReEncrypt*", "kms:GenerateDataKey*", "kms:Decrypt",
               "kms:DescribeKey"},
              <<"arn:aws:kms", region, "account", "key/*">>)

UnscopedS3Statement == Statement({"s3:ListBucket", "s3:GetObject"}, <<"*">>)

(* what model_bucket.grant_read(role) attaches: read actions on that bucket only *)
GrantReadStatement(bucket) ==
    Statement({"s3:GetObject*", "s3:GetBucket*", "s3:List*"}, <<bucket>>)

EcrStatement ==
    Statement({"ecr:BatchCheckLayerAvailability", "ecr:GetDownloadUrlForLayer",
               "ecr:BatchGetImage"},
              << IF Truthy(req.ecr_repo_arn) THEN req.ecr_repo_arn ELSE "*" >>)

(* `if not model_execution_role_arn:` (line 58) *)
CreatesRoleAlways == TRUE

CreatesRole == ~Truthy(req.model_execution_role_arn)

(* `if model_artifacts_bucket_arn:` (line 101) *)
GrantsBucketReadNever == FALSE

GrantsBucketRead == Truthy(req.model_artifacts_bucket_arn)

BucketStatements ==
    IF GrantsBucketRead
    THEN {GrantReadStatement(req.model_artifacts_bucket_arn)}
    ELSE {UnscopedS3Statement}

BucketCalls ==
    IF GrantsBucketRead
    THEN << <<"grant_read", req.model_artifacts_bucket_arn>> >>
    ELSE <<>>

NoRole == [kind |-> "none", arn |-> None, statements |-> {}]

CreatedRole ==
    [kind |-> "created", arn |-> "Model Execution Role",
     statements |-> {BaselineStatement, KmsStatement} \cup BucketStatements
                        \cup {EcrStatement}]

ImportedRole ==
    [kind |-> "imported", arn |-> req.model_execution_role_arn, statements |-> {}]

----------------------------------------------------------------------------
(* Artifact resolution (lines 130-137) *)

(* `if not model_package_arn:` (line 130) *)
NeedsLookupWheneverGroupGiven ==
    ~Truthy(req.model_package_arn) \/ Truthy(req.model_package_group_name)

NeedsLookup == ~Truthy(req.model_package_arn)

(* `if model_package_group_name:` (line 132) *)
HasGroup == Truthy(req.model_package_group_name)

(* scripts.get_approved_package: the latest approved package of the group,  *)
(* or a failure when the group holds none                                   *)
LookupFailure == "LookupFailure"

get_approved_package(r, group) == {"pkg-7", "pkg-8", LookupFailure}

----------------------------------------------------------------------------
(* Constructs of the stack *)

Node(kind, name, artifact, variant_model_name, config_name, deps) ==
    [kind |-> kind, name |-> name, artifact |-> artifact,
     variant_model_name |-> variant_model_name,
     endpoint_config_name |-> config_name, deps |-> deps]

Kinds(ns) == [i \in 1..Len(ns) |-> ns[i].kind]

HasNode(kind) == \E i \in 1..Len(nodes) : nodes[i].kind = kind

IndexOf(kind) == CHOOSE i \in 1..Len(nodes) : nodes[i].kind = kind

NodeOf(kind) == nodes[IndexOf(kind)]

(* the role reference of the Model: a node of this stack only when created here *)
RoleDeps == IF role.kind = "created" THEN {"Role"} ELSE {}

(* model_name=model_name (line 172) *)
ProductionVariantModelNameResampled == Name(req.id, "model", get_timestamp)

ProductionVariantModelName == model_name

(* endpoint_config_name=endpoint_config.endpoint_config_name (line 183) *)
EndpointConfigNameRef == NodeOf("EndpointConfig").name

(* `if not model_execution_role_arn:` (line 192) *)
AddsNagSuppressions == ~Truthy(req.model_execution_role_arn)

----------------------------------------------------------------------------
(* Statement order of __init__ *)

NextPcKeyAfterConfig(p) ==
    CASE p = "vpc" -> "sg"
      [] p = "sg" -> "role"
      [] p = "role" -> "artifact"
      [] p = "artifact" -> "model"
      [] p = "model" -> "conf"
      [] p = "conf" -> "key"
      [] p = "key" -> "endpoint"
      [] p = "endpoint" -> "nag"
      [] p = "nag" -> "done"

NextPcKeyBeforeModel(p) ==
    CASE p = "vpc" -> "sg"
      [] p = "sg" -> "role"
      [] p = "role" -> "artifact"
      [] p = "artifact" -> "key"
      [] p = "key" -> "model"
      [] p = "model" -> "conf"
      [] p = "conf" -> "endpoint"
      [] p = "endpoint" -> "nag"
      [] p = "nag" -> "done"

NextPc(p) ==
    CASE p = "vpc" -> "sg"
      [] p = "sg" -> "role"
      [] p = "role" -> "artifact"
      [] p = "artifact" -> "model"
      [] p = "model" -> "key"
      [] p = "key" -> "conf"
      [] p = "conf" -> "endpoint"
      [] p = "endpoint" -> "nag"
      [] p = "nag" -> "done"

----------------------------------------------------------------------------
(* Initial state: the process is up, no stack has been constructed yet *)

Init ==
    /\ zone \in Zones
    /\ region \in Regions
    /\ now = 0
    /\ pc = "idle"
    /\ req = NoRequest
    /\ started = 0
    /\ calls = <<>>
    /\ nodes = <<>>
    /\ role = NoRole
    /\ model_package_arn = None
    /\ lookup_returned = None
    /\ model_name = NoName
    /\ endpoint_config_name = NoName
    /\ suppressions = {}
    /\ error = "none"
    /\ invocations = 0
    /\ history = <<>>

(* The wall clock advances, at any point of the construction or between two *)
(* constructions.                                                           *)
Tick ==
    /\ \E t \in Instants :
          /\ t > now
          /\ now' = t
    /\ UNCHANGED <<zone, region, pc, req, started, calls, nodes, role, model_package_arn,
                   lookup_returned, model_name, endpoint_config_name, suppressions,
                   error, invocations, history>>

(* Entry of DeployEndpointStack.__init__ with arguments r: nothing has been *)
(* looked up or constructed yet.                                            *)
Enter(r) ==
    /\ req' = r
    /\ invocations' = invocations + 1
    /\ started' = now
    /\ calls' = <<>>
    /\ nodes' = <<>>
    /\ role' = NoRole
    /\ model_package_arn' = None
    /\ lookup_returned' = None
    /\ model_name' = NoName
    /\ endpoint_config_name' = NoName
    /\ suppressions' = {}
    /\ error' = "none"
    /\ pc' = "vpc"
    /\ UNCHANGED <<zone, region, now, history>>

(* DeployEndpointStack(scope, id, ...): the first stack of the process *)
Construct ==
    /\ pc = "idle"
    /\ \E r \in Requests : Enter(r)

(* The same deployment is constructed once more, under the same or another *)
(* stack id, after the previous construction returned or raised.           *)
ConstructAgain ==
    /\ pc \in {"done", "failed"}
    /\ invocations < MaxInvocations
    /\ \E i \in StackIds : Enter([req EXCEPT !.id = i])

(* line 49: ec2.Vpc.from_lookup *)
VpcLookup ==
    /\ pc = "vpc"
    /\ calls' = Append(calls, <<"Vpc.from_lookup">>)
    /\ pc' = NextPc(pc)
    /\ UNCHANGED <<zone, region, now, req, started, nodes, role, model_package_arn,
                   lookup_returned, model_name, endpoint_config_name, suppressions,
                   error, invocations, history>>

(* lines 51-55: the security group and its ingress rule *)
CreateSecurityGroup ==
    /\ pc = "sg"
    /\ nodes' = Append(nodes, Node("SecurityGroup", NoName, None, NoName, NoName, {}))
    /\ pc' = NextPc(pc)
    /\ UNCHANGED <<zone, region, now, req, started, calls, role, model_package_arn,
                   lookup_returned, model_name, endpoint_config_name, suppressions,
                   error, invocations, history>>

(* lines 57-128: the model execution role, created or imported *)
ResolveRole ==
    /\ pc = "role"
    /\ \/ /\ CreatesRole
          /\ role' = CreatedRole
          /\ nodes' = Append(nodes, Node("Role", NoName, None, NoName, NoName, {}))
          /\ calls' = calls \o BucketCalls
       \/ /\ ~CreatesRole
          /\ role' = ImportedRole
          /\ UNCHANGED <<nodes, calls>>
    /\ pc' = NextPc(pc)
    /\ UNCHANGED <<zone, region, now, req, started, model_package_arn, lookup_returned,
                   model_name, endpoint_config_name, suppressions, error, invocations,
                   history>>

(* lines 130-137: the model package, given or looked up in the registry *)
ResolveArtifact ==
    /\ pc = "artifact"
    /\ \/ /\ ~NeedsLookup
          /\ model_package_arn' = req.model_package_arn
          /\ pc' = NextPc(pc)
          /\ UNCHANGED <<calls, lookup_returned, error>>
       \/ /\ NeedsLookup
          /\ HasGroup
          /\ calls' = Append(calls, <<"get_approved_package", region,
                                      req.model_package_group_name>>)
          /\ \E result \in get_approved_package(region, req.model_package_group_name) :
                IF result = LookupFailure
                THEN /\ error' = LookupFailure
                     /\ pc' = "failed"
                     /\ UNCHANGED <<model_package_arn, lookup_returned>>
                ELSE /\ lookup_returned' = result
                     /\ model_package_arn' = result
                     /\ pc' = NextPc(pc)
                     /\ UNCHANGED error
       \/ /\ NeedsLookup
          /\ ~HasGroup
          /\ error' = "ValueError"
          /\ pc' = "failed"
          /\ UNCHANGED <<calls, model_package_arn, lookup_returned>>
    /\ UNCHANGED <<zone, region, now, req, started, nodes, role, model_name,
                   endpoint_config_name, suppressions, invocations, history>>

(* lines 139-152: the model, named with a fresh timestamp *)
CreateModel ==
    /\ pc = "model"
    /\ model_name' = Name(req.id, "model", get_timestamp)
    /\ nodes' = Append(nodes, Node("Model", model_name', model_package_arn, NoName,
                                   NoName, RoleDeps \cup {"SecurityGroup"}))
    /\ pc' = NextPc(pc)
    /\ UNCHANGED <<zone, region, now, req, started, calls, role, model_package_arn,
                   lookup_returned, endpoint_config_name, suppressions, error,
                   invocations, history>>

(* lines 154-161: the KMS key of the endpoint *)
CreateKey ==
    /\ pc = "key"
    /\ nodes' = Append(nodes, Node("EncryptionKey", NoName, None, NoName, NoName, {}))
    /\ pc' = NextPc(pc)
    /\ UNCHANGED <<zone, region, now, req, started, calls, role, model_package_arn,
                   lookup_returned, model_name, endpoint_config_name, suppressions,
                   error, invocations, history>>

(* lines 163-177: the endpoint configuration, named with a fresh timestamp *)
CreateEndpointConfig ==
    /\ pc = "conf"
    /\ endpoint_config_name' = Name(req.id, "conf", get_timestamp)
    /\ nodes' = Append(nodes, Node("EndpointConfig", endpoint_config_name', None,
                                   ProductionVariantModelName, NoName,
                                   {"EncryptionKey", "Model"}))
    /\ pc' = NextPc(pc)
    /\ UNCHANGED <<zone, region, now, req, started, calls, role, model_package_arn,
                   lookup_returned, model_name, suppressions, error, invocations,
                   history>>

(* lines 179-189: the endpoint *)
CreateEndpoint ==
    /\ pc = "endpoint"
    /\ nodes' = Append(nodes, Node("Endpoint", NoName, None, NoName,
                                   EndpointConfigNameRef, {"EndpointConfig"}))
    /\ pc' = NextPc(pc)
    /\ UNCHANGED <<zone, region, now, req, started, calls, role, model_package_arn,
                   lookup_returned, model_name, endpoint_config_name, suppressions,
                   error, invocations, history>>

(* lines 191-202: the cdk-nag suppressions; __init__ returns *)
AddNagSuppressions ==
    /\ pc = "nag"
    /\ suppressions' = IF AddsNagSuppressions THEN {"AwsSolutions-IAM5"} ELSE {}
    /\ history' = Append(history,
                         [id |-> req.id, started |-> started, finished |-> now,
                          names |-> {model_name, endpoint_config_name}])
    /\ pc' = NextPc(pc)
    /\ UNCHANGED <<zone, region, now, req, started, calls, nodes, role,
                   model_package_arn, lookup_returned, model_name,
                   endpoint_config_name, error, invocations>>

Next ==
    \/ Tick
    \/ Construct
    \/ VpcLookup
    \/ CreateSecurityGroup
    \/ ResolveRole
    \/ ResolveArtifact
    \/ CreateModel
    \/ CreateKey
    \/ CreateEndpointConfig
    \/ CreateEndpoint
    \/ AddNagSuppressions

Spec == Init /\ [][Next]_vars

(* The process constructs the deployment repeatedly *)
NextRepeat ==
    \/ Next
    \/ ConstructAgain

SpecRepeat == Init /\ [][NextRepeat]_vars

----------------------------------------------------------------------------
(* Vocabulary of the properties *)

CallsNamed(f) == {i \in 1..Len(calls) : calls[i][1] = f}

RoleSupplied == Truthy(req.model_execution_role_arn)

RoleStepDone == pc \in {"artifact", "model", "key", "conf", "endpoint", "nag", "done", "failed"}

ArtifactStepDone == pc \in {"model", "key", "conf", "endpoint", "nag", "done", "failed"}

S3Actions == {"s3:ListBucket", "s3:GetObject", "s3:GetObject*", "s3:GetBucket*", "s3:List*"}

UnscopedS3Attached ==
    \E st \in role.statements : st.resources = <<"*">> /\ st.actions \cap S3Actions # {}

Before(k1, k2) == HasNode(k1) /\ HasNode(k2) /\ IndexOf(k1) < IndexOf(k2)

----------------------------------------------------------------------------
(* C1: a request with neither model_package_arn nor model_package_group_name *)
(* fails with the configuration error (ValueError) before any external       *)
(* lookup or collaborator call: no VPC lookup, no grant_read, no registry     *)
(* lookup has been made when the error is raised.                             *)
C1_ErrorBeforeAnyLookup == error = "ValueError" => calls = <<>>

(* C2: whenever the construction has failed (ValueError or a failing registry *)
(* lookup), no construct has been added to the stack.                         *)
C2_NoNodeOnFailure == pc = "failed" => nodes = <<>>

(* C3: within one invocation the timestamp component of the Model name equals *)
(* the timestamp component of the EndpointConfig name, whatever the clock     *)
(* does between the construction steps.                                       *)
C3_OneTimestampPerInvocation ==
    (model_name # NoName /\ endpoint_config_name # NoName)
        => TimestampOf(model_name) = TimestampOf(endpoint_config_name)

(* C4: with model_execution_role_arn supplied the role is a pure reference:   *)
(* no statement is attached, no Role construct is created, grant_read is not  *)
(* called, and no cdk-nag suppression is recorded for it.                     *)
C4_SuppliedRoleIsPassThrough ==
    RoleSupplied =>
        /\ role.statements = {}
        /\ ~HasNode("Role")
        /\ CallsNamed("grant_read") = {}
        /\ suppressions = {}
        /\ RoleStepDone =>
              /\ role.kind = "imported"
              /\ role.arn = req.model_execution_role_arn

C4_Witness ==
    /\ pc = "done"
    /\ RoleSupplied
    /\ role = [kind |-> "imported", arn |-> "arn:role:X", statements |-> {}]

(* C5 as stated: without an execution role, a supplied bucket gives scoped    *)
(* grant_read access, no unscoped s3 statement and NO advisory; an omitted    *)
(* bucket gives the unscoped s3 statement and the advisory.                   *)
C5_AdvisoryOnlyWithoutBucket ==
    (pc = "done" /\ ~RoleSupplied) =>
        IF Truthy(req.model_artifacts_bucket_arn)
        THEN /\ CallsNamed("grant_read") # {}
             /\ ~UnscopedS3Attached
             /\ suppressions = {}
        ELSE /\ UnscopedS3Attached
             /\ suppressions # {}

(* C5 amended: without an execution role, a supplied bucket gives access only *)
(* through grant_read on that bucket (no unscoped s3 statement); an omitted   *)
(* bucket gives the unscoped s3:ListBucket/s3:GetObject statement and no      *)
(* grant_read; the AwsSolutions-IAM5 suppression is recorded in both cases.   *)
C5_BucketScopeAndAdvisory ==
    (RoleStepDone /\ ~RoleSupplied) =>
        /\ IF Truthy(req.model_artifacts_bucket_arn)
           THEN /\ \E i \in 1..Len(calls) :
                      calls[i] = <<"grant_read", req.model_artifacts_bucket_arn>>
                /\ Cardinality(CallsNamed("grant_read")) = 1
                /\ GrantReadStatement(req.model_artifacts_bucket_arn) \in role.statements
                /\ ~UnscopedS3Attached
           ELSE /\ UnscopedS3Statement \in role.statements
                /\ CallsNamed("grant_read") = {}
        /\ pc = "done" => suppressions = {"AwsSolutions-IAM5"}

C5_Witness ==
    /\ pc = "done"
    /\ role.kind = "created"
    /\ Truthy(req.model_artifacts_bucket_arn)
    /\ suppressions = {"AwsSolutions-IAM5"}

(* C6: an explicit model_package_arn is used as the Model's package and       *)
(* get_approved_package is never called, even with a group name given; with   *)
(* only a group name the lookup is called exactly once, with (region, group), *)
(* and the Model's package is the value it returned.                          *)
C6_ArtifactResolution ==
    /\ Truthy(req.model_package_arn) =>
          /\ CallsNamed("get_approved_package") = {}
          /\ pc # "failed"
          /\ ArtifactStepDone => model_package_arn = req.model_package_arn
          /\ HasNode("Model") => NodeOf("Model").artifact = req.model_package_arn
    /\ (~Truthy(req.model_package_arn) /\ Truthy(req.model_package_group_name)) =>
          /\ ArtifactStepDone =>
                /\ Cardinality(CallsNamed("get_approved_package")) = 1
                /\ \A i \in CallsNamed("get_approved_package") :
                      calls[i] = <<"get_approved_package", region,
                                   req.model_package_group_name>>
          /\ HasNode("Model") =>
                /\ lookup_returned # None
                /\ NodeOf("Model").artifact = lookup_returned

C6_Witness ==
    /\ pc = "done"
    /\ ~Truthy(req.model_package_arn)
    /\ lookup_returned = "pkg-7"
    /\ NodeOf("Model").artifact = "pkg-7"

(* C7: every construct is created after the constructs it depends on: Model   *)
(* after Role and SecurityGroup, EndpointConfig after Model and EncryptionKey,*)
(* Endpoint after EndpointConfig (creation order is a topological order).     *)
C7_DependencyOrder ==
    \A i \in 1..Len(nodes) :
        /\ \A d \in nodes[i].deps : \E j \in 1..(i - 1) : nodes[j].kind = d
        /\ nodes[i].kind = "Model" =>
              nodes[i].deps = {"SecurityGroup"} \cup
                                 (IF HasNode("Role") THEN {"Role"} ELSE {})
        /\ nodes[i].kind = "EndpointConfig" => nodes[i].deps = {"Model", "EncryptionKey"}
        /\ nodes[i].kind = "Endpoint" => nodes[i].deps = {"EndpointConfig"}

C7_Witness ==
    /\ pc = "done"
    /\ Len(nodes) = 6
    /\ nodes[6].kind = "Endpoint"

(* C8: two invocations with the same stack id that run in two different       *)
(* seconds (the earlier one has returned in a second before the one in which  *)
(* the later one is entered) generate disjoint name sets.                     *)
C8_NamesNeverCollide ==
    \A i, j \in 1..Len(history) :
        (/\ i < j
         /\ history[i].id = history[j].id
         /\ history[i].finished < history[j].started)
            => history[i].names \cap history[j].names = {}

(* C9 as stated: in every successful invocation the Role (when created) comes *)
(* before the SecurityGroup, and the EncryptionKey before the Model.          *)
C9_RoleFirstKeyBeforeModel ==
    pc = "done" =>
        /\ HasNode("Role") => Before("Role", "SecurityGroup")
        /\ Before("EncryptionKey", "Model")

(* C9 amended: every successful invocation creates the constructs in the      *)
(* fixed order SecurityGroup, Role (only if newly created), Model,            *)
(* EncryptionKey, EndpointConfig, Endpoint.                                   *)
C9_FixedCreationOrder ==
    pc = "done" =>
        Kinds(nodes) =
            IF RoleSupplied
            THEN <<"SecurityGroup", "Model", "EncryptionKey", "EndpointConfig", "Endpoint">>
            ELSE <<"SecurityGroup", "Role", "Model", "EncryptionKey", "EndpointConfig",
                   "Endpoint">>

C9_Witness ==
    /\ pc = "done"
    /\ role.kind = "created"
    /\ Before("SecurityGroup", "Role")
    /\ Before("Model", "EncryptionKey")

(* C10: the production variant of the EndpointConfig names exactly the Model  *)
(* of the same stack, and the Endpoint names exactly the EndpointConfig of    *)
(* the same stack, also when the clock advances between the two timestamps.   *)
C10_ReferencesMatchGeneratedNames ==
    /\ HasNode("EndpointConfig") =>
          /\ HasNode("Model")
          /\ NodeOf("EndpointConfig").variant_model_name = NodeOf("Model").name
          /\ NodeOf("Model").name = Name(req.id, "model", TimestampOf(model_name))
    /\ HasNode("Endpoint") =>
          /\ HasNode("EndpointConfig")
          /\ NodeOf("Endpoint").endpoint_config_name = NodeOf("EndpointConfig").name
          /\ NodeOf("EndpointConfig").name = endpoint_config_name

C10_Witness ==
    /\ pc = "done"
    /\ TimestampOf(model_name) # TimestampOf(endpoint_config_name)
    /\ NodeOf("Endpoint").endpoint_config_name = endpoint_config_name

====
